---------------------------- MODULE Spec2Model ----------------------------
(***************************************************************************)
(* A model of josenimo/PyImage:                                            *)
(*   - the label aggregation create_geodataframe_with_multipolygons        *)
(*     (src/pygeojson/python/mask_to_polygons.py) and the same loop in the *)
(*     CLI's process_mask (src/pygeojson/CLI/mask_to_polygons.py);         *)
(*   - the mask-to-polygons CLI's main;                                    *)
(*   - downscale_dask (src/pyimg/python/rescale_dask.py);                  *)
(*   - expand_mask (src/pyimg/CLI/expand_mask_singlemask.py);              *)
(*   - the pyramid writer                                                  *)
(*     (src/pyimg/CLI/downscale_pyramidize_image_dask.py).                 *)
(*                                                                         *)
(* A raster is a function from cells <<row, col>> (0-based, as numpy       *)
(* indexes them) to integers.  The shape tracer (rasterio.features.shapes) *)
(* is a library: it is modelled by what its documentation says, one        *)
(* fragment per 4-connected run of equal values under the mask, and the    *)
(* order in which it yields the fragments is a function of the raster that *)
(* the model does not know: Init picks it, and every call on that raster   *)
(* sees the same order.                                                    *)
(***************************************************************************)
EXTENDS Integers, Sequences, FiniteSets, TLC

VARIABLES
    pc,               \* where the running function is
    array,            \* the 2-D raster handed to the aggregation loop
    order,            \* what shapes() yields for `array`, in its order
    gen,              \* the part of the shapes() generator not yet consumed
    cell_geometries,  \* the dict of the loop, in insertion order
    cell_ids,         \* list built by the second loop
    geometries,       \* list built by the second loop
    gdf,              \* the GeoDataFrame of the last completed call
    calls,            \* completed calls of the aggregation
    first,            \* the GeoDataFrame the first completed call returned
    args,             \* CLI: what the three path checks see
    ndim,             \* CLI: dimensions of `mask` (0: nothing loaded)
    fileOut,          \* CLI: the GeoJSON file (NoFile until written)
    dask_array,       \* downscale_dask: its first argument
    factors,          \* downscale_dask: its second argument
    new_chunks,       \* downscale_dask: the chunks given to map_blocks
    blocks,           \* downscale_dask: blocks handed to rescale_block
    label,            \* expand_mask: the label image read from input_path
    how_many_pixels,  \* expand_mask: the distance of the expansion
    expanded_labels,  \* expand_mask: the expanded label image
    maskOut,          \* expand_mask: the image saved to output_path
    pyArgs,           \* pyramid tool: the parsed arguments
    images,           \* pyramid tool: the input image(s), as listed
    fileIdx,          \* pyramid tool: files done in the running loop
    subifds,          \* pyramid tool: scale_channel_and_write's subifds
    channel,          \* pyramid tool: channels of the open file done
    level,            \* pyramid tool: levels of the channel done
    downsampled,      \* pyramid tool: the layer written last
    tifs              \* pyramid tool: the output files, in the order opened

vars == <<pc, array, order, gen, cell_geometries, cell_ids, geometries, gdf,
          calls, first, args, ndim, fileOut, dask_array, factors, new_chunks,
          blocks, label, how_many_pixels, expanded_labels, maskOut,
          pyArgs, images, fileIdx, subifds, channel, level, downsampled, tifs>>

aggVars == <<array, order, gen, cell_geometries, cell_ids, geometries, gdf,
             calls, first>>
cliVars == <<args, ndim, fileOut>>
daskVars == <<dask_array, factors, new_chunks, blocks>>
expandVars == <<label, how_many_pixels, expanded_labels, maskOut>>
pyrVars == <<pyArgs, images, fileIdx, subifds, channel, level, downsampled, tifs>>
imgVars == <<expandVars, pyrVars>>

---------------------------------------------------------------------------
(* Bounds of the model *)

\* A raster has at most MaxCells cells (every shape h x w with h*w <= MaxCells).
MaxCells == 4
\* Raster values run from -1 to MaxLabel.
MaxLabel == 2
\* The aggregation is called at most MaxCalls times on the same raster.
MaxCalls == 2
\* The raster loader returns an array of 2 .. MaxNdim dimensions.
MaxNdim == 4
\* downscale_dask: arrays and factor tuples of 1 .. MaxDims entries.
MaxDims == 3
\* downscale_dask: every axis is 1 .. MaxSize long.
MaxSize == 2
\* expand_mask: a label image has 1 .. MaxPixels pixels.
MaxPixels == 2
\* expand_mask: the expansion distance is 1 .. MaxDist.
MaxDist == 1
MaxChannels == 2
MaxFiles == 2

---------------------------------------------------------------------------
(* Rasters *)

Cells(h, w) == (0 .. (h - 1)) \X (0 .. (w - 1))

Shapes2D == {s \in (1 .. MaxCells) \X (1 .. MaxCells) : s[1] * s[2] <= MaxCells}

Values == (-1) .. MaxLabel

\* The raster of the documented scenario, [[0,1,1],[0,1,1],[2,0,0]].
ScenarioRows == << <<0, 1, 1>>, <<0, 1, 1>>, <<2, 0, 0>> >>
ScenarioRaster == [c \in Cells(3, 3) |-> ScenarioRows[c[1] + 1][c[2] + 1]]

Rasters == UNION {[Cells(s[1], s[2]) -> Values] : s \in Shapes2D}
           \cup {ScenarioRaster}

NoArray == [c \in {} |-> 0]

---------------------------------------------------------------------------
(* The shape tracer: shapes(array, mask=(array > 0)) *)

\* a variant of Mask that keeps every non-zero cell
Mask_nonzero(a) == {c \in DOMAIN a : a[c] # 0}

\* a variant of Mask that keeps the background too
Mask_all(a) == {c \in DOMAIN a : a[c] >= 0}

\* mask=(array > 0): the cells the tracer may trace
Mask(a) == {c \in DOMAIN a : a[c] > 0}

Abs(x) == IF x < 0 THEN -x ELSE x

\* rasterio's default connectivity=4: cells sharing an edge
Adjacent(c, d) == Abs(c[1] - d[1]) + Abs(c[2] - d[2]) = 1

RECURSIVE Grow(_, _)
Grow(a, S) ==
    LET N == {d \in Mask(a) : \E c \in S : Adjacent(c, d) /\ a[d] = a[c]}
    IN  IF N \subseteq S THEN S ELSE Grow(a, S \cup N)

\* the connected runs of equal values under the mask
Components(a) == {Grow(a, {c}) : c \in Mask(a)}

\* the GeoJSON-like dict of one run: its unit squares, as <<x, y>> = <<col, row>>
\* of each square's upper-left corner (the identity transform of shapes())
ShapeDict(frag) == {<<c[2], c[1]>> : c \in frag}

\* what shapes() yields for one run: (shape_dict, value), the value a number
\* num/den (rasterio reads it back from the traced layer's value field)
Yielded(a, frag) ==
    <<ShapeDict(frag), [num |-> a[CHOOSE c \in frag : TRUE], den |-> 1]>>

\* every order in which the tracer may yield the runs of raster a
Traces(a) ==
    LET C == Components(a)
        n == Cardinality(C)
    IN  {[i \in 1 .. n |-> Yielded(a, s[i])] :
            s \in {t \in [1 .. n -> C] : \A i, j \in 1 .. n : t[i] = t[j] => i = j}}

---------------------------------------------------------------------------
(* Geometries and the dict *)

\* shape(shape_dict): the shapely polygon of a GeoJSON-like dict
shape(shape_dict) == [type |-> "Polygon", parts |-> <<shape_dict>>]

\* MultiPolygon(polygons): one part per polygon, in the list's order
MultiPolygon(polygons) ==
    [type |-> "MultiPolygon",
     parts |-> [i \in 1 .. Len(polygons) |-> polygons[i].parts[1]]]

\* int(cell_id): truncation towards zero
int(cell_id) ==
    IF cell_id.num < 0
    THEN -((-cell_id.num) \div cell_id.den)
    ELSE cell_id.num \div cell_id.den

HasKey(d, k) == \E i \in 1 .. Len(d) : d[i].key = k

\* a variant of Group that starts a new entry for every fragment
Group_split(d, k, polygon) == Append(d, [key |-> k, val |-> <<polygon>>])

\* a variant of Group that keeps only the last fragment of a label
Group_overwrite(d, k, polygon) ==
    IF HasKey(d, k)
    THEN [i \in 1 .. Len(d) |->
            IF d[i].key = k THEN [key |-> k, val |-> <<polygon>>] ELSE d[i]]
    ELSE Append(d, [key |-> k, val |-> <<polygon>>])

\* a variant of Group that keeps the dict's keys in numeric order
Group_sorted(d, k, polygon) ==
    IF HasKey(d, k)
    THEN [i \in 1 .. Len(d) |->
            IF d[i].key = k
            THEN [key |-> k, val |-> Append(d[i].val, polygon)]
            ELSE d[i]]
    ELSE LET below == Cardinality({i \in 1 .. Len(d) : d[i].key < k})
         IN  SubSeq(d, 1, below) \o <<[key |-> k, val |-> <<polygon>>]>>
               \o SubSeq(d, below + 1, Len(d))

\* if cell_id not in cell_geometries: cell_geometries[cell_id] = []
\* cell_geometries[cell_id].append(polygon)
Group(d, k, polygon) ==
    IF HasKey(d, k)
    THEN [i \in 1 .. Len(d) |->
            IF d[i].key = k
            THEN [key |-> k, val |-> Append(d[i].val, polygon)]
            ELSE d[i]]
    ELSE Append(d, [key |-> k, val |-> <<polygon>>])

\* a variant of Combine that wraps a single polygon too
Combine_always_multi(polygons) == MultiPolygon(polygons)

\* a variant of Combine that keeps the first polygon only
Combine_first(polygons) == polygons[1]

\* polygons[0] if len(polygons) == 1 else MultiPolygon(polygons)
Combine(polygons) ==
    IF Len(polygons) = 1 THEN polygons[1] ELSE MultiPolygon(polygons)

\* gpd.GeoDataFrame({'cellId': cell_ids, 'geometry': geometries}, crs="EPSG:4326")
GeoDataFrame(ids, geoms) == [cellId |-> ids, geometry |-> geoms, crs |-> "EPSG:4326"]

NoTable == [cellId |-> <<>>, geometry |-> <<>>, crs |-> "none"]

---------------------------------------------------------------------------
(* create_geodataframe_with_multipolygons(array) *)

\* a variant of Call that keeps the dict of the call before
Call_stale ==
    /\ pc \in {"ready", "returned"}
    /\ calls < MaxCalls
    /\ gen' = order
    /\ cell_ids' = <<>>
    /\ geometries' = <<>>
    /\ pc' = "trace"
    /\ UNCHANGED <<array, order, cell_geometries, gdf, calls, first>>
    /\ UNCHANGED cliVars /\ UNCHANGED imgVars /\ UNCHANGED daskVars

\* a variant of Call that clears the negative cells of its argument in place
Call_inplace ==
    /\ pc \in {"ready", "returned"}
    /\ calls < MaxCalls
    /\ array' = [c \in DOMAIN array |-> IF array[c] < 0 THEN 0 ELSE array[c]]
    /\ cell_geometries' = <<>>
    /\ gen' = order
    /\ cell_ids' = <<>>
    /\ geometries' = <<>>
    /\ pc' = "trace"
    /\ UNCHANGED <<order, gdf, calls, first>>
    /\ UNCHANGED cliVars /\ UNCHANGED imgVars /\ UNCHANGED daskVars

\* entry: cell_geometries = {} and the shapes() generator is created
Call ==
    /\ pc \in {"ready", "returned"}
    /\ calls < MaxCalls
    /\ cell_geometries' = <<>>
    /\ gen' = order
    /\ cell_ids' = <<>>
    /\ geometries' = <<>>
    /\ pc' = "trace"
    /\ UNCHANGED <<array, order, gdf, calls, first>>
    /\ UNCHANGED cliVars /\ UNCHANGED imgVars /\ UNCHANGED daskVars

\* one iteration of the first loop
TraceStep ==
    /\ pc = "trace"
    /\ gen # <<>>
    /\ LET shape_dict == Head(gen)[1]
           cell_id == int(Head(gen)[2])
           polygon == shape(shape_dict)
       IN  cell_geometries' = Group(cell_geometries, cell_id, polygon)
    /\ gen' = Tail(gen)
    /\ UNCHANGED <<pc, array, order, cell_ids, geometries, gdf, calls, first>>
    /\ UNCHANGED cliVars /\ UNCHANGED imgVars /\ UNCHANGED daskVars

\* the generator is exhausted: the second loop starts
TraceEnd ==
    /\ pc = "trace"
    /\ gen = <<>>
    /\ pc' = "combine"
    /\ UNCHANGED aggVars
    /\ UNCHANGED cliVars /\ UNCHANGED imgVars /\ UNCHANGED daskVars

\* one iteration of the second loop, over cell_geometries.items()
CombineStep ==
    /\ pc = "combine"
    /\ Len(cell_ids) < Len(cell_geometries)
    /\ LET item == cell_geometries[Len(cell_ids) + 1]
       IN  /\ geometries' = Append(geometries, Combine(item.val))
           /\ cell_ids' = Append(cell_ids, item.key)
    /\ UNCHANGED <<pc, array, order, gen, cell_geometries, gdf, calls, first>>
    /\ UNCHANGED cliVars /\ UNCHANGED imgVars /\ UNCHANGED daskVars

\* the table is built and returned
BuildGdf ==
    /\ pc = "combine"
    /\ Len(cell_ids) = Len(cell_geometries)
    /\ gdf' = GeoDataFrame(cell_ids, geometries)
    /\ first' = IF calls = 0 THEN gdf' ELSE first
    /\ calls' = calls + 1
    /\ pc' = "returned"
    /\ UNCHANGED <<array, order, gen, cell_geometries, cell_ids, geometries>>
    /\ UNCHANGED cliVars /\ UNCHANGED imgVars /\ UNCHANGED daskVars

\* an image of no pixels, and no file
NoImage == [dtype |-> "none", data |-> <<>>]

NoPyArgs == [input |-> "none", paths_ok |-> FALSE, tile_size |-> 0, compress |-> FALSE]

\* expand_mask is not running
ExpandIdle ==
    /\ label = NoImage
    /\ how_many_pixels = 0
    /\ expanded_labels = NoImage
    /\ maskOut = NoImage

\* the pyramid tool is not running
PyrIdle ==
    /\ pyArgs = NoPyArgs
    /\ images = <<>>
    /\ fileIdx = 0
    /\ subifds = 0
    /\ channel = 0
    /\ level = 0
    /\ downsampled = <<>>
    /\ tifs = <<>>

\* the state of the image tools while none of them runs
ImgIdle == ExpandIdle /\ PyrIdle

NoArgs == [isfile |-> FALSE, input_tif |-> FALSE, output_geojson |-> FALSE]
NoFile == [written |-> FALSE, table |-> NoTable]
NoDask == [is_dask |-> FALSE, shape |-> <<>>, chunksize |-> <<>>]

Init ==
    /\ pc = "ready"
    /\ array \in Rasters
    /\ order \in Traces(array)
    /\ gen = <<>>
    /\ cell_geometries = <<>>
    /\ cell_ids = <<>>
    /\ geometries = <<>>
    /\ gdf = NoTable
    /\ calls = 0
    /\ first = NoTable
    /\ args = NoArgs
    /\ ndim = 2
    /\ fileOut = NoFile
    /\ dask_array = NoDask
    /\ factors = <<>>
    /\ new_chunks = <<>>
    /\ blocks = 0
    /\ ImgIdle

Next == Call \/ TraceStep \/ TraceEnd \/ CombineStep \/ BuildGdf

Spec == Init /\ [][Next]_vars

---------------------------------------------------------------------------
(* The mask-to-polygons CLI: main, check_inputs_paths, process_mask,       *)
(* save_geojson.  process_mask repeats the two loops of the aggregation:   *)
(* TraceStep, TraceEnd, CombineStep and BuildGdf are its steps too.        *)
(* `array` is the leading 2-D plane of the loaded mask, mask[0, ..., 0],   *)
(* and `ndim` the number of dimensions of `mask`.                          *)

ArgsSet == [isfile : BOOLEAN, input_tif : BOOLEAN, output_geojson : BOOLEAN]

\* the three asserts of check_inputs_paths
PathChecks(a) == a.isfile /\ a.input_tif /\ a.output_geojson

\* a variant of CheckInputsPaths that reports nothing
CheckInputsPaths_lenient ==
    /\ pc = "main"
    /\ pc' = "checked"
    /\ UNCHANGED aggVars
    /\ UNCHANGED cliVars /\ UNCHANGED imgVars /\ UNCHANGED daskVars

\* check_inputs_paths(args): an AssertionError ends the run
CheckInputsPaths ==
    /\ pc = "main"
    /\ pc' = IF PathChecks(args) THEN "checked" ELSE "aborted"
    /\ UNCHANGED aggVars
    /\ UNCHANGED cliVars /\ UNCHANGED imgVars /\ UNCHANGED daskVars

\* load_mask(input_path): the loader returns an array of 2 or more dimensions
LoadMask ==
    /\ pc = "checked"
    /\ args.isfile
    /\ \E nd \in 2 .. MaxNdim, a \in Rasters :
          /\ ndim' = nd
          /\ array' = a
          /\ \E o \in Traces(a) : order' = o
    /\ pc' = "loaded"
    /\ UNCHANGED <<gen, cell_geometries, cell_ids, geometries, gdf, calls, first>>
    /\ UNCHANGED <<args, fileOut>> /\ UNCHANGED imgVars /\ UNCHANGED daskVars

\* load_mask(input_path): imread raises (no such file, or not an image)
LoadMaskFails ==
    /\ pc = "checked"
    /\ pc' = "aborted"
    /\ UNCHANGED aggVars
    /\ UNCHANGED cliVars /\ UNCHANGED imgVars /\ UNCHANGED daskVars

\* if mask.ndim > 2: mask = mask[0]; mask_np = mask.compute();
\* cell_geometries = {} and the shapes() generator is created
ProcessMaskEntry ==
    /\ pc = "loaded"
    /\ ndim' = IF ndim > 2 THEN ndim - 1 ELSE ndim
    /\ cell_geometries' = <<>>
    /\ gen' = order
    /\ pc' = "trace"
    /\ UNCHANGED <<array, order, cell_ids, geometries, gdf, calls, first>>
    /\ UNCHANGED <<args, fileOut>> /\ UNCHANGED imgVars /\ UNCHANGED daskVars

\* shapes() raises on its first item (an array it does not take)
ShapesRaises ==
    /\ pc = "trace"
    /\ Len(gen) = Len(order)
    /\ pc' = "aborted"
    /\ UNCHANGED aggVars
    /\ UNCHANGED cliVars /\ UNCHANGED imgVars /\ UNCHANGED daskVars

\* save_geojson(gdf, args.output)
SaveGeojson ==
    /\ pc = "returned"
    /\ fileOut' = [written |-> TRUE, table |-> gdf]
    /\ pc' = "saved"
    /\ UNCHANGED aggVars
    /\ UNCHANGED <<args, ndim>> /\ UNCHANGED imgVars /\ UNCHANGED daskVars

InitCLI ==
    /\ pc = "main"
    /\ args \in ArgsSet
    /\ array = NoArray
    /\ order = <<>>
    /\ gen = <<>>
    /\ cell_geometries = <<>>
    /\ cell_ids = <<>>
    /\ geometries = <<>>
    /\ gdf = NoTable
    /\ calls = 0
    /\ first = NoTable
    /\ ndim = 0
    /\ fileOut = NoFile
    /\ dask_array = NoDask
    /\ factors = <<>>
    /\ new_chunks = <<>>
    /\ blocks = 0
    /\ ImgIdle

NextCLI ==
    \/ CheckInputsPaths
    \/ LoadMask
    \/ LoadMaskFails
    \/ ProcessMaskEntry
    \/ ShapesRaises
    \/ TraceStep
    \/ TraceEnd
    \/ CombineStep
    \/ BuildGdf
    \/ SaveGeojson

SpecCLI == InitCLI /\ [][NextCLI]_vars

---------------------------------------------------------------------------
(* downscale_dask(dask_array, factors)                                     *)
(* A factor is a number num/den; 1 and 0.5 are the factors of the default  *)
(* argument.                                                               *)

Factor == {[num |-> 1, den |-> 1], [num |-> 1, den |-> 2]}

\* ceil(s * f)
CeilMul(s, f) == (s * f.num + f.den - 1) \div f.den

Min(x, y) == IF x < y THEN x ELSE y

\* zip(...): as long as its shortest argument
ZipLen(x, y) == Min(Len(x), Len(y))

\* tuple(ceil(s * f) for s, f in zip(dask_array.shape, factors))
NewShape(shp, fs) == [i \in 1 .. ZipLen(shp, fs) |-> CeilMul(shp[i], fs[i])]

\* tuple(min(ceil(c * f), ns) for c, f, ns in zip(chunksize, factors, new_shape))
NewChunks(chk, fs, ns) ==
    [i \in 1 .. Min(ZipLen(chk, fs), Len(ns)) |-> Min(CeilMul(chk[i], fs[i]), ns[i])]

RECURSIVE Product(_)
Product(s) == IF s = <<>> THEN 1 ELSE Head(s) * Product(Tail(s))

\* the number of blocks of a dask array
NumBlocks(d) ==
    Product([i \in 1 .. Len(d.shape) |->
                (d.shape[i] + d.chunksize[i] - 1) \div d.chunksize[i]])

\* the chunk sizes a dask array of shape shp may have
ChunkSizes(shp) ==
    {c \in [1 .. Len(shp) -> 1 .. MaxSize] : \A i \in 1 .. Len(shp) : c[i] <= shp[i]}

DaskArrays ==
    UNION {
      {[is_dask |-> b, shape |-> shp, chunksize |-> chk] :
          b \in BOOLEAN, chk \in ChunkSizes(shp)}
      : shp \in UNION {[1 .. n -> 1 .. MaxSize] : n \in 1 .. MaxDims}}

FactorTuples == UNION {[1 .. n -> Factor] : n \in 1 .. MaxDims}

\* assert isinstance(dask_array, da.Array)
AssertIsDask ==
    /\ pc = "downscale"
    /\ pc' = IF dask_array.is_dask THEN "is_dask" ELSE "assert_failed"
    /\ UNCHANGED aggVars /\ UNCHANGED cliVars /\ UNCHANGED imgVars /\ UNCHANGED daskVars

\* assert len(factors) != len(dask_array.shape)
AssertLength ==
    /\ pc = "is_dask"
    /\ pc' = IF Len(factors) # Len(dask_array.shape) THEN "asserted" ELSE "assert_failed"
    /\ UNCHANGED aggVars /\ UNCHANGED cliVars /\ UNCHANGED imgVars /\ UNCHANGED daskVars

\* new_shape, new_chunks and the (lazy) map_blocks
MapBlocks ==
    /\ pc = "asserted"
    /\ new_chunks' = NewChunks(dask_array.chunksize, factors,
                               NewShape(dask_array.shape, factors))
    /\ pc' = "rescale"
    /\ UNCHANGED aggVars /\ UNCHANGED cliVars /\ UNCHANGED imgVars
    /\ UNCHANGED <<dask_array, factors, blocks>>

\* rescale_block(block, factors) on the next block: zoom() takes one factor
\* per axis of the block and raises otherwise
RescaleBlock ==
    /\ pc = "rescale"
    /\ blocks < NumBlocks(dask_array)
    /\ blocks' = blocks + 1
    /\ pc' = IF Len(factors) = Len(dask_array.shape) THEN "rescale" ELSE "zoom_failed"
    /\ UNCHANGED aggVars /\ UNCHANGED cliVars /\ UNCHANGED imgVars
    /\ UNCHANGED <<dask_array, factors, new_chunks>>

InitDask ==
    /\ pc = "downscale"
    /\ dask_array \in DaskArrays
    /\ factors \in FactorTuples
    /\ new_chunks = <<>>
    /\ blocks = 0
    /\ ImgIdle
    /\ array = NoArray
    /\ order = <<>>
    /\ gen = <<>>
    /\ cell_geometries = <<>>
    /\ cell_ids = <<>>
    /\ geometries = <<>>
    /\ gdf = NoTable
    /\ calls = 0
    /\ first = NoTable
    /\ args = NoArgs
    /\ ndim = 0
    /\ fileOut = NoFile

NextDask == AssertIsDask \/ AssertLength \/ MapBlocks \/ RescaleBlock

SpecDask == InitDask /\ [][NextDask]_vars

---------------------------------------------------------------------------
(* The state of the other tools while an image tool runs *)

AggIdle ==
    /\ array = NoArray
    /\ order = <<>>
    /\ gen = <<>>
    /\ cell_geometries = <<>>
    /\ cell_ids = <<>>
    /\ geometries = <<>>
    /\ gdf = NoTable
    /\ calls = 0
    /\ first = NoTable

CliIdle ==
    /\ args = NoArgs
    /\ ndim = 0
    /\ fileOut = NoFile

DaskIdle ==
    /\ dask_array = NoDask
    /\ factors = <<>>
    /\ new_chunks = <<>>
    /\ blocks = 0

---------------------------------------------------------------------------
(* expand_mask(input_path, output_path, how_many_pixels, type_of_input)    *)
(* A pixel is a 64-bit integer, written as a sign and four 16-bit limbs,   *)
(* the most significant first.  A label image is one row of pixels of      *)
(* dtype int64 or uint64.                                                  *)

LimbBase == 256 * 256

Small(n) == [neg |-> FALSE, mag |-> <<0, 0, 0, n>>]

Zero == Small(0)

\* pixel values around the limits of the four unsigned types
CommonPixels ==
    { Small(0), Small(1), Small(255), Small(256), Small(LimbBase - 1),
      [neg |-> FALSE, mag |-> <<0, 0, 1, 0>>],
      [neg |-> FALSE, mag |-> <<0, 0, LimbBase - 1, LimbBase - 1>>],
      [neg |-> FALSE, mag |-> <<0, 1, 0, 0>>] }

\* -1 and 2^63 - 1
Int64Pixels ==
    CommonPixels \cup
    { [neg |-> TRUE, mag |-> <<0, 0, 0, 1>>],
      [neg |-> FALSE,
       mag |-> <<(LimbBase \div 2) - 1, LimbBase - 1, LimbBase - 1, LimbBase - 1>>] }

\* 2^64 - 1
UInt64Pixels ==
    CommonPixels \cup
    { [neg |-> FALSE,
       mag |-> <<LimbBase - 1, LimbBase - 1, LimbBase - 1, LimbBase - 1>>] }

\* io.imread(input_path): the label images drawn
LabelImages ==
    UNION {
      {[dtype |-> "int64", data |-> d] : d \in [1 .. n -> Int64Pixels]} \cup
      {[dtype |-> "uint64", data |-> d] : d \in [1 .. n -> UInt64Pixels]}
      : n \in 1 .. MaxPixels}

\* a <= b on magnitudes
LeqMag(a, b) ==
    \E k \in 1 .. 5 :
        /\ \A i \in 1 .. (k - 1) : a[i] = b[i]
        /\ k = 5 \/ a[k] < b[k]

\* v <= w on pixels
LeqPixel(v, w) ==
    IF v.neg # w.neg THEN v.neg
    ELSE IF v.neg THEN LeqMag(w.mag, v.mag)
    ELSE LeqMag(v.mag, w.mag)

\* expanded_labels.max()
MaxValue(img) ==
    CHOOSE v \in {img.data[i] : i \in 1 .. Len(img.data)} :
        \A i \in 1 .. Len(img.data) : LeqPixel(img.data[i], v)

\* np.iinfo(np.uint<bits>).max
IInfoMax(bits) ==
    CASE bits = 8 -> Small(255)
      [] bits = 16 -> Small(LimbBase - 1)
      [] bits = 32 -> [neg |-> FALSE, mag |-> <<0, 0, LimbBase - 1, LimbBase - 1>>]
      [] bits = 64 -> [neg |-> FALSE,
                       mag |-> <<LimbBase - 1, LimbBase - 1, LimbBase - 1, LimbBase - 1>>]

\* the 64 bits of a pixel (two's complement of a negative one)
Bits64(v) ==
    IF ~v.neg THEN v.mag
    ELSE LET inv == [i \in 1 .. 4 |-> (LimbBase - 1) - v.mag[i]]
             s4 == inv[4] + 1
             s3 == inv[3] + (s4 \div LimbBase)
             s2 == inv[2] + (s3 \div LimbBase)
             s1 == inv[1] + (s2 \div LimbBase)
         IN  <<s1 % LimbBase, s2 % LimbBase, s3 % LimbBase, s4 % LimbBase>>

\* one pixel of astype('uint<bits>'): the low bits of the pixel, unsigned
AsUInt(v, bits) ==
    LET m == Bits64(v)
    IN  [neg |-> FALSE,
         mag |-> CASE bits = 8 -> <<0, 0, 0, m[4] % 256>>
                   [] bits = 16 -> <<0, 0, 0, m[4]>>
                   [] bits = 32 -> <<0, 0, m[3], m[4]>>
                   [] bits = 64 -> m]

DtypeName(bits) ==
    CASE bits = 8 -> "uint8" [] bits = 16 -> "uint16"
      [] bits = 32 -> "uint32" [] bits = 64 -> "uint64"

\* expanded_labels.astype('uint<bits>')
AsType(img, bits) ==
    [dtype |-> DtypeName(bits),
     data |-> [i \in 1 .. Len(img.data) |-> AsUInt(img.data[i], bits)]]

\* the if/elif chain on max_value: the width chosen (0: no branch taken)
ChosenBits(max_value) ==
    IF LeqPixel(max_value, IInfoMax(8)) THEN 8
    ELSE IF LeqPixel(max_value, IInfoMax(16)) THEN 16
    ELSE IF LeqPixel(max_value, IInfoMax(32)) THEN 32
    ELSE IF LeqPixel(max_value, IInfoMax(64)) THEN 64
    ELSE 0

\* segmentation.expand_labels(label, how_many_pixels) on a one-row image: a
\* background pixel takes the label of a nearest labelled pixel no further
\* than the distance (any of them when two are equally near)
ExpandLabels(img, d) ==
    LET n == Len(img.data)
        Near(i) == {j \in 1 .. n : img.data[j] # Zero /\ Abs(i - j) <= d}
        Cand(i) ==
            IF img.data[i] # Zero THEN {img.data[i]}
            ELSE IF Near(i) = {} THEN {Zero}
            ELSE {img.data[j] : j \in {k \in Near(i) :
                                         \A m \in Near(i) : Abs(i - k) <= Abs(i - m)}}
    IN  {[dtype |-> img.dtype, data |-> e] :
            e \in {f \in [1 .. n -> {img.data[i] : i \in 1 .. n} \cup {Zero}] :
                      \A i \in 1 .. n : f[i] \in Cand(i)}}

\* label = io.imread(...); expanded_labels = segmentation.expand_labels(...)
ReadAndExpand ==
    /\ pc = "expand_mask"
    /\ expanded_labels' \in ExpandLabels(label, how_many_pixels)
    /\ pc' = "expanded"
    /\ UNCHANGED <<label, how_many_pixels, maskOut>>
    /\ UNCHANGED aggVars /\ UNCHANGED cliVars /\ UNCHANGED daskVars
    /\ UNCHANGED pyrVars

\* max_value = expanded_labels.max() and the dynamic choice of the data type
SetDtype ==
    /\ pc = "expanded"
    /\ LET bits == ChosenBits(MaxValue(expanded_labels))
       IN  expanded_labels' =
              IF bits = 0 THEN expanded_labels ELSE AsType(expanded_labels, bits)
    /\ pc' = "typed"
    /\ UNCHANGED <<label, how_many_pixels, maskOut>>
    /\ UNCHANGED aggVars /\ UNCHANGED cliVars /\ UNCHANGED daskVars
    /\ UNCHANGED pyrVars

\* io.imsave(fname=output_path, arr=expanded_labels)
ImSave ==
    /\ pc = "typed"
    /\ maskOut' = expanded_labels
    /\ pc' = "mask_saved"
    /\ UNCHANGED <<label, how_many_pixels, expanded_labels>>
    /\ UNCHANGED aggVars /\ UNCHANGED cliVars /\ UNCHANGED daskVars
    /\ UNCHANGED pyrVars

InitExpand ==
    /\ pc = "expand_mask"
    /\ label \in LabelImages
    /\ how_many_pixels \in 1 .. MaxDist
    /\ expanded_labels = NoImage
    /\ maskOut = NoImage
    /\ AggIdle /\ CliIdle /\ DaskIdle /\ PyrIdle

NextExpand == ReadAndExpand \/ SetDtype \/ ImSave

SpecExpand == InitExpand /\ [][NextExpand]_vars

---------------------------------------------------------------------------
(* downscale_pyramidize_image_dask.py: main, check_inputs_paths,           *)
(* check_image and scale_channel_and_write.  The module defines            *)
(* scale_channel_and_write twice; the name is bound to the later           *)
(* definition when main runs, so the later one is the action and the       *)
(* earlier one is kept as an operator on a channel.  An image is its       *)
(* number of dimensions and, when that is 3, its channels; a channel is a  *)
(* sequence of rows of unsigned pixel values.  A float32 holds every       *)
(* quotient of the pixel values used here closely enough that truncating   *)
(* the exact quotient gives the byte numpy gives.                          *)

\* line 37: the tile size must be divisible by 16
TileUnit == 16

\* np.iinfo(np.uint8).max
UInt8Max == 255

\* the tile sizes tried: one that fails the assertion of line 37, two that pass
TileSizes == {TileUnit \div 2, TileUnit, 2 * TileUnit}

\* the (height, width) of the planes tried: within one tile, wider than one
\* tile, taller than two tiles
PlaneShapes == {<<1, 2>>, <<2, TileUnit + 1>>, <<2 * TileUnit + 1, 1>>}

\* the pixel values of a channel: lo + ((x + 2y) mod (span + 1))
Patterns == << [lo |-> 0,   span |-> 4],
               [lo |-> 100, span |-> 4],
               [lo |-> 100, span |-> 0],
               [lo |-> 0,   span |-> 0] >>

PixelAt(pat, y, x) == pat.lo + ((x + 2 * y) % (pat.span + 1))

ChannelData(pat, h, w) ==
    [i \in 1 .. h |-> [j \in 1 .. w |-> PixelAt(pat, i - 1, j - 1)]]

\* a readable image of 3 dimensions (channel, y, x)
GoodImage(shp, nchan, rot) ==
    [ndim |-> 3,
     data |-> [c \in 1 .. nchan |->
                  ChannelData(Patterns[((rot + c - 1) % Len(Patterns)) + 1],
                              shp[1], shp[2])]]

\* an image check_image turns down: 4 dimensions, of which the planes of
\* the leading index are kept
BadImage == [ndim |-> 4, data |-> GoodImage(<<1, 2>>, 1, 0).data]

GoodImages ==
    {GoodImage(shp, n, r) : shp \in PlaneShapes, n \in 1 .. MaxChannels,
                            r \in 0 .. (Len(Patterns) - 1)}

\* the files a folder is filled from
FolderImages ==
    {GoodImage(<<1, 2>>, 1, 1), GoodImage(<<1, 2>>, MaxChannels, 0), BadImage}

Folders == UNION {[1 .. n -> FolderImages] : n \in 0 .. MaxFiles}

PyArgsSet ==
    [input : {"file", "dir", "none"}, paths_ok : BOOLEAN,
     tile_size : TileSizes, compress : BOOLEAN]

\* image.shape[-2:]
Height(chan) == Len(chan)
Width(chan) == Len(chan[1])

Max(x, y) == IF x > y THEN x ELSE y

\* np.ceil(np.log2(max(1, p / q))): doubling q until it reaches p
RECURSIVE CeilLog2(_, _)
CeilLog2(p, q) == IF p <= q THEN 0 ELSE 1 + CeilLog2(p, 2 * q)

\* lines 81 and 131, with floor in place of ceil
RECURSIVE FloorLog2(_, _)
FloorLog2(p, q) == IF p < 2 * q THEN 0 ELSE 1 + FloorLog2(p, 2 * q)

Subifds_floor(h, w, tile_size) == FloorLog2(Max(h, w), tile_size) + 1

\* lines 81 and 131: subifds
Subifds(h, w, tile_size) == CeilLog2(Max(h, w), tile_size) + 1

PixelsOf(chan) == {chan[i][j] : i \in 1 .. Height(chan), j \in 1 .. Width(chan)}

\* channel_array.min().compute() and channel_array.max().compute()
ArrayMin(chan) == CHOOSE m \in PixelsOf(chan) : \A v \in PixelsOf(chan) : m <= v
ArrayMax(chan) == CHOOSE m \in PixelsOf(chan) : \A v \in PixelsOf(chan) : v <= m

\* what astype(np.uint8) can make of a NaN
NaNCasts == {0, UInt8Max}

\* astype(np.uint8) of a float num/den that is not negative; nan when den = 0
ToUInt8(num, den, nan) ==
    IF den = 0 THEN nan ELSE (num \div den) % (UInt8Max + 1)

\* lines 139-145: the later definition divides by the maximum of the
\* channel as it was read
Compress8bit(chan, nan) ==
    LET lo == ArrayMin(chan)
        hi == ArrayMax(chan)
    IN  [i \in 1 .. Height(chan) |-> [j \in 1 .. Width(chan) |->
            ToUInt8((chan[i][j] - lo) * UInt8Max, hi, nan)]]

\* lines 87-94, and lines 56-60 of downscale_image_dask.py: the minimum is
\* subtracted first, and the division is by the maximum of what is left
Compress8bitEarlier(chan, nan) ==
    LET lo == ArrayMin(chan)
        hi == ArrayMax(chan) - lo
    IN  [i \in 1 .. Height(chan) |-> [j \in 1 .. Width(chan) |->
            ToUInt8((chan[i][j] - lo) * UInt8Max, hi, nan)]]

\* a[::res, ::res]
Strided(a, res) ==
    [i \in 1 .. ((Height(a) + res - 1) \div res) |->
       [j \in 1 .. ((Width(a) + res - 1) \div res) |->
          a[(i - 1) * res + 1][(j - 1) * res + 1]]]

\* tif.write(...) on the file opened last
Written(w) ==
    [tifs EXCEPT ![Len(tifs)].writes = Append(@, w)]

\* check_inputs_paths(args), lines 32-53, and the branch main takes on it
PyrCheckInputsPaths ==
    /\ pc = "pyr_main"
    /\ pc' = IF pyArgs.tile_size % TileUnit # 0 THEN "aborted"
             ELSE IF pyArgs.input = "none" THEN "pyr_done"
             ELSE IF ~pyArgs.paths_ok THEN "aborted"
             ELSE "check"
    /\ UNCHANGED pyrVars
    /\ UNCHANGED aggVars /\ UNCHANGED cliVars /\ UNCHANGED daskVars
    /\ UNCHANGED expandVars

\* check_image without the assertion of line 72
CheckImage_unasserted ==
    /\ pc = "check"
    /\ fileIdx < Len(images)
    /\ fileIdx' = fileIdx + 1
    /\ UNCHANGED <<pc, pyArgs, images, subifds, channel, level, downsampled, tifs>>
    /\ UNCHANGED aggVars /\ UNCHANGED cliVars /\ UNCHANGED daskVars
    /\ UNCHANGED expandVars

\* check_image(path), lines 67-72, called at line 188 and in the loop of
\* lines 195-196
CheckImage ==
    /\ pc = "check"
    /\ fileIdx < Len(images)
    /\ IF images[fileIdx + 1].ndim = 3
          THEN /\ fileIdx' = fileIdx + 1
               /\ pc' = pc
          ELSE /\ pc' = "aborted"
               /\ UNCHANGED fileIdx
    /\ UNCHANGED <<pyArgs, images, subifds, channel, level, downsampled, tifs>>
    /\ UNCHANGED aggVars /\ UNCHANGED cliVars /\ UNCHANGED daskVars
    /\ UNCHANGED expandVars

\* the loop of lines 195-196 is over (line 188 has returned)
ChecksDone ==
    /\ pc = "check"
    /\ fileIdx = Len(images)
    /\ pc' = "scale"
    /\ fileIdx' = 0
    /\ UNCHANGED <<pyArgs, images, subifds, channel, level, downsampled, tifs>>
    /\ UNCHANGED aggVars /\ UNCHANGED cliVars /\ UNCHANGED daskVars
    /\ UNCHANGED expandVars

\* lines 127-133: the image is read, subifds is computed, the output file
\* is opened
OpenWriter ==
    /\ pc = "scale"
    /\ fileIdx < Len(images)
    /\ LET image == images[fileIdx + 1]
       IN  /\ tifs' = Append(tifs, [source |-> fileIdx + 1, writes |-> <<>>])
           /\ subifds' = Subifds(Height(image.data[1]), Width(image.data[1]),
                                 pyArgs.tile_size)
    /\ channel' = 0
    /\ pc' = "channel"
    /\ UNCHANGED <<pyArgs, images, fileIdx, level, downsampled>>
    /\ UNCHANGED aggVars /\ UNCHANGED cliVars /\ UNCHANGED daskVars
    /\ UNCHANGED expandVars

\* lines 135-159: the base layer of the next channel
WriteBase ==
    /\ pc = "channel"
    /\ channel < Len(images[fileIdx + 1].data)
    /\ \E nan \in NaNCasts :
          LET channel_array == images[fileIdx + 1].data[channel + 1]
              base_layer == IF pyArgs.compress
                               THEN Compress8bit(channel_array, nan)
                               ELSE channel_array
          IN  /\ tifs' = Written([subfiletype |-> 0,
                                  subifds |-> subifds,
                                  description |-> (channel = 0),
                                  data |-> base_layer])
              /\ downsampled' = base_layer
    /\ level' = 0
    /\ pc' = "levels"
    /\ UNCHANGED <<pyArgs, images, fileIdx, subifds, channel>>
    /\ UNCHANGED aggVars /\ UNCHANGED cliVars /\ UNCHANGED daskVars
    /\ UNCHANGED expandVars

\* lines 162-171: one more pyramid level
WriteLevel ==
    /\ pc = "levels"
    /\ level < subifds
    /\ downsampled' = Strided(downsampled, 2)
    /\ tifs' = Written([subfiletype |-> 1,
                        subifds |-> 0,
                        description |-> FALSE,
                        data |-> downsampled'])
    /\ level' = level + 1
    /\ UNCHANGED <<pc, pyArgs, images, fileIdx, subifds, channel>>
    /\ UNCHANGED aggVars /\ UNCHANGED cliVars /\ UNCHANGED daskVars
    /\ UNCHANGED expandVars

\* the loop of line 162 is over: line 135 takes the next channel
NextChannel ==
    /\ pc = "levels"
    /\ level = subifds
    /\ channel' = channel + 1
    /\ pc' = "channel"
    /\ UNCHANGED <<pyArgs, images, fileIdx, subifds, level, downsampled, tifs>>
    /\ UNCHANGED aggVars /\ UNCHANGED cliVars /\ UNCHANGED daskVars
    /\ UNCHANGED expandVars

\* the loop of line 135 is over: the file is closed (line 173) and main
\* takes the next file
CloseWriter ==
    /\ pc = "channel"
    /\ channel = Len(images[fileIdx + 1].data)
    /\ fileIdx' = fileIdx + 1
    /\ pc' = "scale"
    /\ UNCHANGED <<pyArgs, images, subifds, channel, level, downsampled, tifs>>
    /\ UNCHANGED aggVars /\ UNCHANGED cliVars /\ UNCHANGED daskVars
    /\ UNCHANGED expandVars

\* main has no file left (line 189, or the loop of lines 197-202 is over)
PyrDone ==
    /\ pc = "scale"
    /\ fileIdx = Len(images)
    /\ pc' = "pyr_done"
    /\ UNCHANGED pyrVars
    /\ UNCHANGED aggVars /\ UNCHANGED cliVars /\ UNCHANGED daskVars
    /\ UNCHANGED expandVars

InitPyramid ==
    /\ pc = "pyr_main"
    /\ pyArgs \in PyArgsSet
    /\ images \in IF pyArgs.input = "file" THEN {<<im>> : im \in GoodImages \cup {BadImage}}
                  ELSE IF pyArgs.input = "dir" THEN Folders
                  ELSE {<<>>}
    /\ fileIdx = 0
    /\ subifds = 0
    /\ channel = 0
    /\ level = 0
    /\ downsampled = <<>>
    /\ tifs = <<>>
    /\ AggIdle /\ CliIdle /\ DaskIdle /\ ExpandIdle

NextPyramid ==
    \/ PyrCheckInputsPaths
    \/ CheckImage
    \/ ChecksDone
    \/ OpenWriter
    \/ WriteBase
    \/ WriteLevel
    \/ NextChannel
    \/ CloseWriter
    \/ PyrDone

SpecPyramid == InitPyramid /\ [][NextPyramid]_vars

---------------------------------------------------------------------------
(* What the claims speak of *)

\* the (label, geometry) pairs of a table
Rows(t) == {<<t.cellId[i], t.geometry[i]>> : i \in 1 .. Len(t.cellId)}

\* the labels of a table
Labels(t) == {t.cellId[i] : i \in 1 .. Len(t.cellId)}

\* the values that occur in a raster
ValuesIn(a) == {a[c] : c \in DOMAIN a}

\* the fragments the tracer yielded with value v, in the order of the yield
RECURSIVE YieldedFor(_, _)
YieldedFor(tr, v) ==
    IF tr = <<>> THEN <<>>
    ELSE IF int(Head(tr)[2]) = v
         THEN <<Head(tr)[1]>> \o YieldedFor(Tail(tr), v)
         ELSE YieldedFor(Tail(tr), v)

SeqRange(s) == {s[i] : i \in 1 .. Len(s)}

\* the raster cells <<row, col>> a geometry covers
CellsCovered(g) == {<<sq[2], sq[1]>> : sq \in UNION SeqRange(g.parts)}

AllZero(a) == \A c \in DOMAIN a : a[c] = 0

Returned == pc = "returned"

---------------------------------------------------------------------------
(* C1: when the aggregation has returned, the set of cellId values of its  *)
(* table is the set of distinct raster values greater than 0.              *)
C1_LabelsArePositiveValues ==
    Returned =>
        /\ Labels(gdf) = {v \in ValuesIn(array) : v > 0}
        /\ Len(gdf.cellId) = Len(gdf.geometry)

C1_Witness ==
    /\ Returned
    /\ {-1, 0, 1, 2} \subseteq ValuesIn(array)
    /\ Labels(gdf) = {1, 2}

C3_PartsAreFragments ==
    Returned =>
        \A i \in 1 .. Len(gdf.cellId) :
            LET frags == YieldedFor(order, gdf.cellId[i])
                g == gdf.geometry[i]
            IN  /\ (g.type = "Polygon") <=> (Len(frags) = 1)
                /\ (g.type = "MultiPolygon") <=> (Len(frags) # 1)
                /\ Len(g.parts) = Len(frags)
                /\ SeqRange(g.parts) = SeqRange(frags)
                /\ Cardinality(SeqRange(g.parts)) = Len(frags)

\* one label traced as one fragment, another as two
C3_Witness ==
    /\ Returned
    /\ \E i, j \in 1 .. Len(gdf.cellId) :
          /\ gdf.geometry[i].type = "Polygon"
          /\ Len(YieldedFor(order, gdf.cellId[i])) = 1
          /\ gdf.geometry[j].type = "MultiPolygon"
          /\ Len(gdf.geometry[j].parts) = 2

(* C4: on a raster whose cells are all 0 the aggregation is never stuck    *)
(* before it returns, and the table it returns has no rows.                *)
C4_AllZeroGivesEmptyTable ==
    AllZero(array) =>
        /\ Returned => gdf = GeoDataFrame(<<>>, <<>>)
        /\ ~Returned => ENABLED Next

C4_Witness ==
    /\ Returned
    /\ AllZero(array)
    /\ Cardinality(DOMAIN array) > 1
    /\ gdf.cellId = <<>>
    /\ gdf.crs = "EPSG:4326"

(* C5: for the raster [[0,1,1],[0,1,1],[2,0,0]] the table has exactly two  *)
(* rows: label 1 with a single polygon covering the cells of rows 0-1,     *)
(* columns 1-2, and label 2 with a single polygon covering the cell of     *)
(* row 2, column 0; no row has label 0.                                    *)
C5_Scenario ==
    (Returned /\ array = ScenarioRaster) =>
        /\ Len(gdf.cellId) = 2
        /\ {<<r[1], r[2].type, CellsCovered(r[2])>> : r \in Rows(gdf)} =
              { <<1, "Polygon", {<<0, 1>>, <<0, 2>>, <<1, 1>>, <<1, 2>>}>>,
                <<2, "Polygon", {<<2, 0>>}>> }
        /\ 0 \notin Labels(gdf)

C5_Witness ==
    /\ Returned
    /\ array = ScenarioRaster
    /\ Labels(gdf) = {1, 2}

(* C6: a later call on the same raster returns the same set of             *)
(* (label, geometry) pairs as the first call.                              *)
C6_SecondCallSameRows ==
    (Returned /\ calls >= 2) => Rows(gdf) = Rows(first)

C6_Witness ==
    /\ Returned
    /\ calls = 2
    /\ Len(gdf.cellId) = 2
    /\ \E i \in 1 .. 2 : gdf.geometry[i].type = "MultiPolygon"

(* C7: no step of the aggregation changes the raster it was given, nor     *)
(* anything outside its own locals and the table it returns.               *)
C7_RasterUnchanged ==
    [][array' = array /\ fileOut' = fileOut /\ args' = args]_vars

C7_Witness ==
    /\ Returned
    /\ \E c, d \in DOMAIN array : array[c] < 0 /\ array[d] > 0
    /\ gdf.cellId # <<>>

\* the distinct labels of what the tracer yielded, in the order of their
\* first yield
RECURSIVE FirstSeen(_, _)
FirstSeen(tr, seen) ==
    IF tr = <<>> THEN <<>>
    ELSE LET v == int(Head(tr)[2])
         IN  IF v \in seen
             THEN FirstSeen(Tail(tr), seen)
             ELSE <<v>> \o FirstSeen(Tail(tr), seen \cup {v})

(* C11: the rows of the table are in the order in which each label was     *)
(* first yielded by the tracer (row i holds the i-th distinct label of the *)
(* yielded sequence), and the parts of each geometry are the label's       *)
(* fragments in the order they were yielded.                               *)
C11_RowsInFirstYieldOrder ==
    Returned =>
        /\ gdf.cellId = FirstSeen(order, {})
        /\ \A i \in 1 .. Len(gdf.cellId) :
               gdf.geometry[i].parts = YieldedFor(order, gdf.cellId[i])

\* label 2 yielded before label 1, and label 2 yielded again after it
C11_Witness ==
    /\ Returned
    /\ Len(order) = 3
    /\ int(order[1][2]) = 2
    /\ int(order[2][2]) = 1
    /\ int(order[3][2]) = 2
    /\ gdf.cellId = <<2, 1>>
    /\ gdf.geometry[1].parts = <<order[1][1], order[3][1]>>

---------------------------------------------------------------------------
(* Claims about the CLI *)

\* every fragment the tracer yields for the loaded mask is a part of the
\* row of its label in table t
HoldsEveryFragment(t) ==
    \A k \in 1 .. Len(order) :
        \E i \in 1 .. Len(t.cellId) :
            /\ t.cellId[i] = int(order[k][2])
            /\ order[k][1] \in SeqRange(t.geometry[i].parts)

(* C8: the GeoJSON file is written only after the three path checks have   *)
(* passed and the loops have consumed every traced fragment, and what is   *)
(* written is the complete table; a run that aborted has written nothing   *)
(* and takes no further step.                                              *)
C8_WriteOnlyAfterFullAggregation ==
    /\ fileOut.written =>
          /\ PathChecks(args)
          /\ pc = "saved"
          /\ gen = <<>>
          /\ fileOut.table = gdf
          /\ gdf.crs = "EPSG:4326"
          /\ HoldsEveryFragment(fileOut.table)
    /\ pc = "aborted" => (~fileOut.written /\ ~ENABLED NextCLI)

C8_Witness ==
    /\ fileOut.written
    /\ Len(order) = 3
    /\ Len(fileOut.table.cellId) = 2

(* C9: the loops of process_mask run on a 2-D raster only, whatever the    *)
(* number of dimensions of the loaded mask.                                *)
C9_LoopOnlyOn2D ==
    pc \in {"trace", "combine", "returned", "saved"} => ndim = 2

---------------------------------------------------------------------------
(* Claims about downscale_dask *)

(* C10: downscale_dask goes past its assertions only when the input is a   *)
(* dask array and factors has one entry per dimension; with another number *)
(* of factors it stops at the assertion, with no block rescaled.           *)
C10_RescaleOnlyWhenLengthsMatch ==
    /\ pc \in {"asserted", "rescale", "zoom_failed"} =>
          (dask_array.is_dask /\ Len(factors) = Len(dask_array.shape))
    /\ (dask_array.is_dask /\ Len(factors) # Len(dask_array.shape)) =>
          (pc \in {"downscale", "is_dask", "assert_failed"} /\ blocks = 0)

---------------------------------------------------------------------------
(* Claims about expand_mask *)

\* the narrowest of the four unsigned widths whose maximum is at least v
NarrowestFor(v) ==
    CHOOSE b \in {8, 16, 32, 64} :
        /\ LeqPixel(v, IInfoMax(b))
        /\ \A c \in {8, 16, 32, 64} : c < b => ~LeqPixel(v, IInfoMax(c))

(* C12: the step that sets the data type gives the expanded labels the     *)
(* narrowest of uint8, uint16, uint32, uint64 whose maximum is at least    *)
(* the largest value of the image, and leaves every pixel value as it was. *)
C12_NarrowestDtypeSameValues ==
    [][(pc = "expanded" /\ pc' = "typed") =>
          /\ expanded_labels'.dtype =
                DtypeName(NarrowestFor(MaxValue(expanded_labels)))
          /\ expanded_labels'.data = expanded_labels.data]_vars

\* the writes of an output file that are base layers, in the order written
BaseIndices(t) == {i \in 1 .. Len(t.writes) : t.writes[i].subfiletype = 0}

\* the number of levels of the claim: the least n >= 1 with
\* tile_size * 2^(n-1) >= max(height, width)
LevelsFor(h, w, tile_size) ==
    CHOOSE n \in 1 .. (Max(h, w) + 1) :
       /\ tile_size * 2 ^ (n - 1) >= Max(h, w)
       /\ n = 1 \/ tile_size * 2 ^ (n - 2) < Max(h, w)

\* the output file is closed
Closed(f) == pc = "pyr_done" \/ f < Len(tifs)

\* the base layers a channel can be written as
BaseLayers(chan) ==
    IF pyArgs.compress THEN {Compress8bit(chan, nan) : nan \in NaNCasts}
                       ELSE {chan}

(* C13: in every output file the writes come in runs of N + 1, one run per *)
(* channel in index order: a base layer that declares N sub-resolution     *)
(* levels, then N reduced writes of which the k-th (from 0) is that base   *)
(* layer sampled with stride 2^(k+1) in both axes; N is fixed by the       *)
(* plane's larger side and the tile size, and a closed file holds exactly  *)
(* one run for each channel.                                               *)
C13_BaseThenNStridedLevels ==
    \A f \in 1 .. Len(tifs) :
       LET t == tifs[f]
           im == images[t.source]
           n == LevelsFor(Height(im.data[1]), Width(im.data[1]), pyArgs.tile_size)
       IN  /\ Len(t.writes) <= Len(im.data) * (n + 1)
           /\ Closed(f) => Len(t.writes) = Len(im.data) * (n + 1)
           /\ \A i \in 1 .. Len(t.writes) :
                 LET c == (i - 1) \div (n + 1)
                     k == (i - 1) % (n + 1)
                     w == t.writes[i]
                 IN  IF k = 0
                        THEN /\ w.subfiletype = 0
                             /\ w.subifds = n
                             /\ w.data \in BaseLayers(im.data[c + 1])
                        ELSE /\ w.subfiletype = 1
                             /\ w.data = Strided(t.writes[i - k].data, 2 ^ k)

\* a closed file of two channels with three levels each
C13_Witness ==
    /\ pc = "pyr_done"
    /\ \E f \in 1 .. Len(tifs) :
          /\ Len(images[tifs[f].source].data) = 2
          /\ tifs[f].writes[1].subifds = 3
          /\ Len(tifs[f].writes) = 8

\* the pixels of a channel are not all equal
NotAllEqual(chan) == ArrayMin(chan) # ArrayMax(chan)

(* C14: with 8-bit compression on, every base layer written for a channel  *)
(* whose pixels are not all equal has 0 where the channel has its minimum  *)
(* and 255 where it has its maximum, and is the layer the earlier          *)
(* definition (and downscale_image_dask.py) computes for the channel.      *)
C14_MinTo0MaxTo255 ==
    pyArgs.compress =>
       \A f \in 1 .. Len(tifs) : \A i \in BaseIndices(tifs[f]) :
          LET chan == images[tifs[f].source].data[
                         Cardinality({b \in BaseIndices(tifs[f]) : b <= i})]
              base == tifs[f].writes[i].data
          IN  NotAllEqual(chan) =>
                 /\ \A y \in 1 .. Height(chan) : \A x \in 1 .. Width(chan) :
                       /\ chan[y][x] = ArrayMin(chan) => base[y][x] = 0
                       /\ chan[y][x] = ArrayMax(chan) => base[y][x] = UInt8Max
                 /\ base = Compress8bitEarlier(chan, 0)

\* some listed image does not have 3 dimensions
SomeImageFails == \E i \in 1 .. Len(images) : images[i].ndim # 3

(* C15: no output file exists while main is still checking, and none ever  *)
(* exists when some listed image fails check_image: such a run never       *)
(* reaches the end of main.  In single-file mode the list is the one image.*)
C15_NoOutputUntilAllChecked ==
    /\ pc \in {"pyr_main", "check", "aborted"} => tifs = <<>>
    /\ SomeImageFails => tifs = <<>> /\ pc # "pyr_done"

\* folder mode: two files checked and both written
C15_Witness ==
    /\ pc = "pyr_done"
    /\ pyArgs.input = "dir"
    /\ Len(images) = 2
    /\ Len(tifs) = 2

\* folder mode: the second file failed the check after the first passed
C15_AbortWitness ==
    /\ pc = "aborted"
    /\ pyArgs.input = "dir"
    /\ fileIdx = 1
    /\ tifs = <<>>

===========================================================================
